---- MODULE Spec2Model ----
(***************************************************************************)
(* Asynchronous job pipeline of the Crucible backend: the DynamoDB job     *)
(* queue (jobQueue.js), the per-user lock (userLock.js), the polling       *)
(* worker (asyncWorker.js), the response router (responseRouter.js) and    *)
(* the ingestion endpoints of the Express app.                             *)
(*                                                                         *)
(* Time is counted in ticks; one tick stands for the coarsest duration the *)
(* code distinguishes.  Every awaited call of the code is one step: the    *)
(* step performs the effect of the awaited call on the store and runs the  *)
(* synchronous code that follows it up to the next await.                  *)
(***************************************************************************)
EXTENDS Integers, Sequences, FiniteSets, Bags, TLC

\* ------------------------------------------------------------------ bounds
MaxTime == 1
MaxJobs == 2
MaxPolls == 2
MaxBodies == 2
MaxStops == 1
MaxSubs == 1
MaxTtl == 2

\* --------------------------------------------------- configuration (ticks)
\* asyncWorker.js options, scaled to ticks
MaxConcurrentJobs == 1
MaxExecutionTime == 1
MaxJobProcessingTime == 1
DrainMargin == 1
StopWaitTimeout == 1
\* jobQueue.js: ttl = now + 10 min
JobTtl == 1

Workers == {"w1"}
UserIds == {"u1", "whatsapp:+1"}

\* a missing (undefined / empty, hence falsy) JavaScript value
Absent == "absent"
NoTime == -1

ValidChannels == {"mobile", "whatsapp"}
Statuses == {"pending", "processing", "completed", "failed"}
\* error.message: the literal of the processing timeout, and the messages of
\* an answer-service error, a store error and a delivery error
TimeoutMessage == "AI processing timeout"
OtherMessage == "error"
StoreMessage == "store error"
DeliveryMessage == "delivery error"
Responses == {"r1"}

\* channelData: undefined, {} (or an object without a phone number), and an
\* object with a phone number
NoChannelData == [defined |-> FALSE, phoneNumber |-> "absent"]
EmptyChannelData == [defined |-> TRUE, phoneNumber |-> "absent"]
PhoneData(n) == [defined |-> TRUE, phoneNumber |-> n]

NoResult == [kind |-> "none", value |-> "none"]
ResponseResult(r) == [kind |-> "response", value |-> r]
ErrorResult(m) == [kind |-> "error", value |-> m]

Min(a, b) == IF a <= b THEN a ELSE b

\* ------------------------------------------------------------- job store
\* jobQueue.js enqueueJob: the validation of the required fields
MissingRequired(jd) ==
    jd.channel = Absent \/ jd.userId = Absent \/ jd.prompt = Absent

\* an enqueueJob that accepts every channel
InvalidChannelNever(jd) == FALSE

\* jobQueue.js enqueueJob: the validation of the channel
InvalidChannel(jd) == jd.channel \notin ValidChannels

EnqueueRejects(jd) == MissingRequired(jd) \/ InvalidChannel(jd)

\* an enqueueJob that stores the job without its prompt
NewItemNoPrompt(jd, id, t) ==
    [jobId |-> id, status |-> "pending", createdAt |-> t, updatedAt |-> NoTime,
     ttl |-> t + JobTtl, channel |-> jd.channel, userId |-> jd.userId,
     prompt |-> Absent, channelData |-> EmptyChannelData, priority |-> "normal",
     result |-> NoResult]

\* jobQueue.js enqueueJob: the item handed to PutCommand
NewItem(jd, id, t) ==
    [jobId |-> id,
     status |-> "pending",
     createdAt |-> t,
     updatedAt |-> NoTime,
     ttl |-> t + JobTtl,
     channel |-> jd.channel,
     userId |-> jd.userId,
     prompt |-> jd.prompt,
     channelData |-> IF jd.channelData = NoChannelData
                     THEN EmptyChannelData ELSE jd.channelData,
     priority |-> IF jd.priority = Absent THEN "normal" ELSE jd.priority,
     result |-> NoResult]

\* PutCommand: writes the whole item under its key
PutItem(store, item) ==
    [k \in DOMAIN store \cup {item.jobId} |->
        IF k = item.jobId THEN item ELSE store[k]]

\* the item an UpdateCommand creates when no item has the key: DynamoDB's
\* update is an upsert and the code passes no condition expression
BareItem(id) ==
    [jobId |-> id, status |-> Absent, createdAt |-> NoTime, updatedAt |-> NoTime,
     ttl |-> NoTime, channel |-> Absent, userId |-> Absent, prompt |-> Absent,
     channelData |-> NoChannelData, priority |-> Absent,
     result |-> NoResult]

\* an updateJobStatus that always sets #result
UpdatedItemSettingResult(old, status, result, t) ==
    [old EXCEPT !.status = status, !.updatedAt = t, !.result = result]

\* jobQueue.js updateJobStatus: set #status, #updatedAt and, when a result
\* is passed (truthy), #result
UpdatedItem(old, status, result, t) ==
    [old EXCEPT !.status = status,
                !.updatedAt = t,
                !.result = IF result = NoResult THEN old.result ELSE result]

UpdateItem(store, id, status, result, t) ==
    LET old == IF id \in DOMAIN store THEN store[id] ELSE BareItem(id)
    IN  PutItem(store, UpdatedItem(old, status, result, t))

\* the table's time to live: the store deletes an item whose ttl attribute
\* (enqueueJob: now + 10 min) has passed
Reclaimed(store, id) == [k \in DOMAIN store \ {id} |-> store[k]]

\* jobQueue.js getJob: the item, or undefined
NoJob == BareItem(NoTime)
GetJob(store, id) == IF id \in DOMAIN store THEN store[id] ELSE NoJob

\* getPendingJobs called without a channel (channel = null)
NoChannel == "null"

\* a query whose key condition leaves the status out
PendingMatchAnyStatus(item, channel, t) ==
    /\ item.createdAt # NoTime
    /\ item.createdAt <= t
    /\ (channel # NoChannel => item.channel = channel)

\* jobQueue.js getPendingJobs: the key condition of the query on
\* StatusCreatedAtIndex (an item is in the index only with both key
\* attributes), with the optional channel condition
PendingMatch(item, channel, t) ==
    /\ item.status = "pending"
    /\ item.createdAt # NoTime
    /\ item.createdAt <= t
    /\ (channel # NoChannel => item.channel = channel)

PendingIds(store, channel, t) ==
    {id \in DOMAIN store : PendingMatch(store[id], channel, t)}

\* the index returns its items in ascending createdAt order; items with the
\* same createdAt come in an order the code does not control
AscendingOrders(store, S) ==
    {q \in [1..Cardinality(S) -> S] :
        /\ \A i, j \in 1..Cardinality(S) : i # j => q[i] # q[j]
        /\ \A i, j \in 1..Cardinality(S) :
              i < j => store[q[i]].createdAt <= store[q[j]].createdAt}

\* jobQueue.js getPendingJobs(limit, channel): every result the query can give
GetPendingJobs(store, limit, channel, t) ==
    {[i \in 1..Min(limit, Len(q)) |-> store[q[i]]] :
        q \in AscendingOrders(store, PendingIds(store, channel, t))}

\* ------------------------------------------------------------ user locks
\* a lockUser that never shortens a lease that is stored
LockUserKeepingLonger(lk, u, ttlSeconds, t) ==
    [k \in DOMAIN lk \cup {u} |->
        IF k # u THEN lk[k]
        ELSE IF u \in DOMAIN lk /\ lk[u].ttl > t + ttlSeconds THEN lk[u]
        ELSE [status |-> "locked", ttl |-> t + ttlSeconds]]

\* userLock.js lockUser: PutCommand of {userId, status: 'locked', ttl}
LockUser(lk, u, ttlSeconds, t) ==
    [k \in DOMAIN lk \cup {u} |->
        IF k = u THEN [status |-> "locked", ttl |-> t + ttlSeconds] ELSE lk[k]]

\* an isUserLocked that does not look at the expiry
IsUserLockedStored(lk, u, t) == u \in DOMAIN lk

\* userLock.js isUserLocked
IsUserLocked(lk, u, t) ==
    IF u \notin DOMAIN lk THEN FALSE
    ELSE lk[u].status = "locked" /\ lk[u].ttl > t

\* an unlockUser that deletes every lease
UnlockUserAll(lk, u) == [k \in {} |-> lk[k]]

\* userLock.js unlockUser: DeleteCommand
UnlockUser(lk, u) == [k \in DOMAIN lk \ {u} |-> lk[k]]


\* -------------------------------------------------------- response router
\* what a delivery depends on outside the job: Twilio configured, the Twilio
\* send succeeding, the user lookups succeeding, an FCM token stored, push
\* notifications enabled, the push succeeding
Envs ==
    [twilio : BOOLEAN, transport : BOOLEAN, profile : BOOLEAN,
     token : BOOLEAN, pushEnabled : BOOLEAN, push : BOOLEAN]

\* responseRouter.js sendWhatsAppResponse: throws when Twilio is not
\* configured, when channelData holds no phone number, or when the send fails
SendWhatsAppResponse(job, env) ==
    IF ~env.twilio THEN "throws"
    ELSE IF job.channelData.phoneNumber = Absent THEN "throws"
    ELSE IF env.transport THEN "sent" ELSE "throws"

\* responseRouter.js sendMobileResponse: the user lookups can throw; without
\* a token or with notifications disabled nothing is sent; a push error is
\* caught and logged
SendMobileResponse(job, env) ==
    IF ~env.profile THEN "throws"
    ELSE IF ~env.token THEN "skipped"
    ELSE IF ~env.pushEnabled THEN "skipped"
    ELSE IF env.push THEN "sent" ELSE "skipped"

\* a routeResponse whose switch takes every other channel for mobile
RouteResponseDefaultMobile(job, env) ==
    IF job.channel = "whatsapp" THEN SendWhatsAppResponse(job, env)
    ELSE SendMobileResponse(job, env)

\* responseRouter.js routeResponse: the switch on job.channel; its catch
\* logs and re-throws
RouteResponse(job, env) ==
    IF job.channel = "whatsapp" THEN SendWhatsAppResponse(job, env)
    ELSE IF job.channel = "mobile" THEN SendMobileResponse(job, env)
    ELSE "throws"

RouteResponseOutcomes(job) == {RouteResponse(job, env) : env \in Envs}

\* responseRouter.js sendWhatsAppError: returns without sending when Twilio
\* is not configured or no phone number is stored; a failing send throws
SendWhatsAppError(job, env) ==
    IF ~env.twilio THEN "skipped"
    ELSE IF job.channelData.phoneNumber = Absent THEN "skipped"
    ELSE IF env.transport THEN "sent" ELSE "throws"

\* responseRouter.js sendMobileError
SendMobileError(job, env) ==
    IF ~env.profile THEN "throws"
    ELSE IF ~env.token THEN "skipped"
    ELSE IF ~env.pushEnabled THEN "skipped"
    ELSE IF env.push THEN "sent" ELSE "skipped"

\* responseRouter.js routeErrorResponse: the switch on job.channel; its
\* catch logs and re-throws
RouteErrorResponse(job, env) ==
    IF job.channel = "whatsapp" THEN SendWhatsAppError(job, env)
    ELSE IF job.channel = "mobile" THEN SendMobileError(job, env)
    ELSE "throws"

RouteErrorOutcomes(job) == {RouteErrorResponse(job, env) : env \in Envs}

\* responseRouter.js sendWhatsAppError: the user-facing variant
ErrorVariant(errorMessage) ==
    IF errorMessage = TimeoutMessage THEN "tooLong" ELSE "generic"

\* pushNotification.js sendJobErrorNotification: the notification carries
\* one fixed text, whatever the error message is
JobErrorNotification(errorMessage) == "notice"

\* the text a failed job's user is sent on the job's channel
ErrorText(job, errorMessage) ==
    IF job.channel = "whatsapp" THEN ErrorVariant(errorMessage)
    ELSE JobErrorNotification(errorMessage)

\* ------------------------------------------------------------------ state
VARIABLES
    now,            \* the clock (Date.now()), in ticks
    jobs,           \* the job table: jobId -> item
    nextId,         \* the ids uuidv4 has handed out so far
    locks,          \* the lock table: userId -> item
    running,        \* AsyncWorker._running, per worker
    startTime,      \* AsyncWorker.startTime
    processingJobs, \* AsyncWorker.processingJobs
    pollingInterval,\* AsyncWorker.pollingInterval is set
    timers,         \* the poll interval timers alive, per worker
    stopWaits,      \* the pending waits of stop(): check interval and timeout
    polls,          \* the processNextJob calls in flight
    bodies,         \* the processJob calls in flight
    subs,           \* the requests of the ingestion endpoints in flight
    reply,          \* the last HTTP reply of an ingestion endpoint
    last            \* the last direct call of a store, lock or router function

vars == <<now, jobs, nextId, locks, running, startTime, processingJobs,
          pollingInterval, timers, stopWaits, polls, bodies, subs,
          reply, last>>

workerVars == <<running, startTime, processingJobs, pollingInterval, timers,
                stopWaits>>

EmptyFn == [k \in {} |-> 0]
\* an HTTP reply: the status code and the jobId of the body (0: none)
NoReply == [ep |-> "none", userId |-> "absent", code |-> 0, jobId |-> 0]
NoCall == [op |-> "none", id |-> 0, threw |-> FALSE, res |-> <<>>]

Init ==
    /\ now = 0
    /\ jobs = EmptyFn
    /\ nextId = 1
    /\ locks = EmptyFn
    /\ running = [w \in Workers |-> FALSE]
    /\ startTime = [w \in Workers |-> NoTime]
    /\ processingJobs = [w \in Workers |-> {}]
    /\ pollingInterval = [w \in Workers |-> FALSE]
    /\ timers = [w \in Workers |-> 0]
    /\ stopWaits = EmptyBag
    /\ polls = EmptyBag
    /\ bodies = EmptyBag
    /\ subs = EmptyBag
    /\ reply = NoReply
    /\ last = NoCall

One(x) == SetToBag({x})
Put(bag, x) == bag (+) One(x)
Take(bag, x) == bag (-) One(x)
Swap(bag, x, y) == (bag (-) One(x)) (+) One(y)

\* ------------------------------------------------------------------ clock
Tick ==
    /\ now < MaxTime
    /\ now' = now + 1
    /\ UNCHANGED <<jobs, nextId, locks, running, startTime, processingJobs,
                   pollingInterval, timers, stopWaits, polls, bodies, subs,
                   reply, last>>

\* ------------------------------------------------------ worker life cycle
\* asyncWorker.js isApproachingTimeout
IsApproachingTimeout(w) ==
    IF startTime[w] = NoTime THEN FALSE
    ELSE (MaxExecutionTime - (now - startTime[w])) < DrainMargin

\* a start without its guard: every call sets the start time and creates a
\* poll timer
StartUnguarded(w) ==
    /\ running' = [running EXCEPT ![w] = TRUE]
    /\ startTime' = [startTime EXCEPT ![w] = now]
    /\ timers' = [timers EXCEPT ![w] = @ + 1]
    /\ pollingInterval' = [pollingInterval EXCEPT ![w] = TRUE]
    /\ UNCHANGED <<now, jobs, nextId, locks, processingJobs, stopWaits, polls,
                   bodies, subs, reply, last>>

\* asyncWorker.js start (with startPolling: a new interval timer, whose
\* handle replaces the stored one)
Start(w) ==
    /\ IF running[w]
       THEN UNCHANGED <<running, startTime, timers, pollingInterval>>
       ELSE /\ running' = [running EXCEPT ![w] = TRUE]
            /\ startTime' = [startTime EXCEPT ![w] = now]
            /\ timers' = [timers EXCEPT ![w] = @ + 1]
            /\ pollingInterval' = [pollingInterval EXCEPT ![w] = TRUE]
    /\ UNCHANGED <<now, jobs, nextId, locks, processingJobs, stopWaits, polls,
                   bodies, subs, reply, last>>

\* clearInterval(this.pollingInterval); this.pollingInterval = null
ClearedTimers(w) ==
    IF pollingInterval[w] THEN [timers EXCEPT ![w] = @ - 1] ELSE timers

\* asyncWorker.js forceStop
ForceStop(w) ==
    /\ running' = [running EXCEPT ![w] = FALSE]
    /\ timers' = ClearedTimers(w)
    /\ pollingInterval' = [pollingInterval EXCEPT ![w] = FALSE]
    /\ processingJobs' = [processingJobs EXCEPT ![w] = {}]
    /\ UNCHANGED <<now, jobs, nextId, locks, startTime, stopWaits, polls,
                   bodies, subs, reply, last>>

\* asyncWorker.js stop, up to its await: with jobs in the processing set it
\* starts a 100 ms check interval and a 10 s timeout
StopCall(w) ==
    /\ running' = [running EXCEPT ![w] = FALSE]
    /\ timers' = ClearedTimers(w)
    /\ pollingInterval' = [pollingInterval EXCEPT ![w] = FALSE]
    /\ IF processingJobs[w] # {}
       THEN /\ BagCardinality(stopWaits) < MaxStops
            /\ stopWaits' = Put(stopWaits,
                [w |-> w, deadline |-> now + StopWaitTimeout, checking |-> TRUE])
       ELSE UNCHANGED stopWaits

Stop(w) ==
    /\ StopCall(w)
    /\ UNCHANGED <<now, jobs, nextId, locks, startTime, processingJobs, polls,
                   bodies, subs, reply, last>>

\* asyncWorker.js stop: one firing of the check interval
StopCheck(s) ==
    /\ s.checking
    /\ IF processingJobs[s.w] = {}
       THEN stopWaits' = Swap(stopWaits, s, [s EXCEPT !.checking = FALSE])
       ELSE UNCHANGED stopWaits
    /\ UNCHANGED <<now, jobs, nextId, locks, running, startTime, processingJobs,
                   pollingInterval, timers, polls, bodies, subs, reply, last>>

\* asyncWorker.js stop: the 10 s timeout, which nothing cancels
StopTimeout(s) ==
    /\ now >= s.deadline
    /\ stopWaits' = Take(stopWaits, s)
    /\ processingJobs' = [processingJobs EXCEPT ![s.w] = {}]
    /\ UNCHANGED <<now, jobs, nextId, locks, running, startTime,
                   pollingInterval, timers, polls, bodies, subs, reply, last>>

\* a call of processNextJob, suspended in getPendingJobs
NewPoll(w) == [w |-> w, pc |-> "getPendingJobs", job |-> NoJob]

\* asyncWorker.js startPolling: one firing of the poll interval
PollTick(w) ==
    /\ timers[w] > 0
    /\ IF ~running[w]
       THEN UNCHANGED <<workerVars, polls>>
       ELSE IF IsApproachingTimeout(w)
       THEN /\ StopCall(w)
            /\ UNCHANGED <<startTime, processingJobs, polls>>
       ELSE IF Cardinality(processingJobs[w]) < MaxConcurrentJobs
       THEN /\ BagCardinality(polls) < MaxPolls
            /\ polls' = Put(polls, NewPoll(w))
            /\ UNCHANGED workerVars
       ELSE UNCHANGED <<workerVars, polls>>
    /\ UNCHANGED <<now, jobs, nextId, locks, bodies, subs, reply, last>>

\* POST /worker/process: processNextJob called from outside the poll loop
WorkerProcess(w) ==
    /\ BagCardinality(polls) < MaxPolls
    /\ polls' = Put(polls, NewPoll(w))
    /\ UNCHANGED <<now, jobs, nextId, locks, workerVars, bodies, subs, reply, last>>

\* ---------------------------------------------------------- processNextJob
\* a call of processJob, suspended in lockUser
NewBody(w, job) ==
    [w |-> w, job |-> job, pc |-> "lockUser", t0 |-> NoTime, lease |-> NoTime,
     response |-> Absent, error |-> Absent, delivered |-> "none"]

\* asyncWorker.js processNextJob: getPendingJobs(1) returns (or throws);
\* then the check against the processing set
PollGetPending(p) ==
    /\ p.pc = "getPendingJobs"
    /\ \/ polls' = Take(polls, p)                       \* the store call throws
       \/ \E res \in GetPendingJobs(jobs, 1, NoChannel, now) :
            IF Len(res) = 0 THEN polls' = Take(polls, p)
            ELSE IF res[1].jobId \in processingJobs[p.w]
            THEN polls' = Take(polls, p)
            ELSE polls' = Swap(polls, p,
                               [p EXCEPT !.pc = "isUserLocked", !.job = res[1]])
    /\ UNCHANGED <<now, jobs, nextId, locks, workerVars, bodies, subs, reply, last>>

\* a processNextJob that does not look at the lock
ClaimGuardAlways(p) == TRUE

\* asyncWorker.js processNextJob: isUserLocked returns (or throws); an
\* unlocked user's job enters the processing set and processJob is started
\* without being awaited
ClaimGuard(p) == ~IsUserLocked(locks, p.job.userId, now)

PollIsLocked(p) ==
    /\ p.pc = "isUserLocked"
    /\ polls' = Take(polls, p)
    /\ \/ UNCHANGED <<processingJobs, bodies>>          \* the lock call throws
       \/ IF ClaimGuard(p)
          THEN /\ BagCardinality(bodies) < MaxBodies
               /\ processingJobs' =
                     [processingJobs EXCEPT ![p.w] = @ \cup {p.job.jobId}]
               /\ bodies' = Put(bodies, NewBody(p.w, p.job))
          ELSE UNCHANGED <<processingJobs, bodies>>
    /\ UNCHANGED <<now, jobs, nextId, locks, running, startTime,
                   pollingInterval, timers, stopWaits, subs, reply, last>>


\* -------------------------------------------------------------- processJob
\* Math.ceil(this.maxJobProcessingTime / 1000): the lease lasts as long as
\* the answer service is waited for
LockTtl == MaxJobProcessingTime

Step(b, c) == bodies' = Swap(bodies, b, c)

\* a processJob without its catch and finally: the error ends the call
FailingUncaught(b, msg) == [b EXCEPT !.pc = "rejected", !.error = msg]

\* processJob: an error thrown in the try block is taken by the catch
Failing(b, msg) == [b EXCEPT !.pc = "markFailed", !.error = msg]

\* processJob: await userLock.lockUser(job.userId, ttl)
BodyLockUser(b) ==
    /\ b.pc = "lockUser"
    /\ locks' = LockUser(locks, b.job.userId, LockTtl, now)
    /\ Step(b, [b EXCEPT !.pc = "markProcessing",
                          !.lease = now + LockTtl])
    /\ UNCHANGED <<now, jobs, nextId, workerVars, polls, subs, reply, last>>

\* processJob: await jobQueue.updateJobStatus(job.jobId, 'processing'), then
\* processWithCrucible starts the answer service and its timeout timer
BodyMarkProcessing(b) ==
    /\ b.pc = "markProcessing"
    /\ jobs' = UpdateItem(jobs, b.job.jobId, "processing", NoResult, now)
    /\ Step(b, [b EXCEPT !.pc = "crucible", !.t0 = now])
    /\ UNCHANGED <<now, nextId, locks, workerVars, polls, subs, reply, last>>

\* a race whose timer never fires
TimerNeverFired(b) == FALSE

\* processWithCrucible: the timer of the race has fired
TimerFired(b) == now - b.t0 >= MaxJobProcessingTime

\* processWithCrucible: Promise.race of the answer service and the timer
BodyCrucible(b) ==
    /\ b.pc = "crucible"
    /\ \/ /\ ~TimerFired(b)
          /\ \E r \in Responses :
                Step(b, [b EXCEPT !.pc = "routeResponse", !.response = r])
       \/ /\ ~TimerFired(b)
          /\ Step(b, Failing(b, OtherMessage))
       \/ /\ TimerFired(b)
          /\ Step(b, Failing(b, TimeoutMessage))
    /\ UNCHANGED <<now, jobs, nextId, locks, workerVars, polls, subs, reply, last>>

\* processJob: await this.responseRouter.routeResponse(job, response, ...)
BodyRouteResponse(b) ==
    /\ b.pc = "routeResponse"
    /\ \E o \in RouteResponseOutcomes(b.job) :
          LET c == [b EXCEPT !.delivered = IF o = "sent" THEN "response" ELSE @]
          IN  IF o = "throws" THEN Step(b, Failing(c, DeliveryMessage))
              ELSE Step(b, [c EXCEPT !.pc = "markCompleted"])
    /\ UNCHANGED <<now, jobs, nextId, locks, workerVars, polls, subs, reply, last>>

\* processJob: await jobQueue.updateJobStatus(job.jobId, 'completed', {...})
BodyMarkCompleted(b) ==
    /\ b.pc = "markCompleted"
    /\ jobs' = UpdateItem(jobs, b.job.jobId, "completed",
                          ResponseResult(b.response), now)
    /\ Step(b, [b EXCEPT !.pc = "unlock"])
    /\ UNCHANGED <<now, nextId, locks, workerVars, polls, subs, reply, last>>

\* processJob, catch: await jobQueue.updateJobStatus(job.jobId, 'failed',
\* {error: error.message, ...})
BodyMarkFailed(b) ==
    /\ b.pc = "markFailed"
    /\ jobs' = UpdateItem(jobs, b.job.jobId, "failed", ErrorResult(b.error), now)
    /\ Step(b, [b EXCEPT !.pc = "routeError"])
    /\ UNCHANGED <<now, nextId, locks, workerVars, polls, subs, reply, last>>

\* processJob, catch: await this.responseRouter.routeErrorResponse(job, msg);
\* when it throws, the error leaves the catch for the finally
BodyRouteError(b) ==
    /\ b.pc = "routeError"
    /\ \E o \in RouteErrorOutcomes(b.job) :
          Step(b, [b EXCEPT !.pc = "unlock",
                            !.delivered = IF o = "sent"
                                          THEN ErrorText(b.job, b.error)
                                          ELSE @])
    /\ UNCHANGED <<now, jobs, nextId, locks, workerVars, polls, subs, reply, last>>

\* processJob, finally: await userLock.unlockUser(job.userId), its error
\* only logged, then this.processingJobs.delete(job.jobId); the call of
\* processJob is over
BodyUnlock(b) ==
    /\ b.pc = "unlock"
    /\ locks' = UnlockUser(locks, b.job.userId)
    /\ processingJobs' = [processingJobs EXCEPT ![b.w] = @ \ {b.job.jobId}]
    /\ bodies' = Take(bodies, b)
    /\ UNCHANGED <<now, jobs, nextId, running, startTime, pollingInterval,
                   timers, stopWaits, polls, subs, reply, last>>

\* a worker that a throwing store or lock call brings down
BodyStoreFaultStopping(b) ==
    /\ b.pc \in {"lockUser", "markProcessing", "markCompleted", "markFailed",
                 "unlock"}
    /\ bodies' = Take(bodies, b)
    /\ running' = [running EXCEPT ![b.w] = FALSE]
    /\ UNCHANGED <<now, jobs, nextId, locks, startTime, processingJobs,
                   pollingInterval, timers, stopWaits, polls, subs, reply, last>>

\* processJob: the awaited store or lock call throws.  In the try block the
\* catch takes over with the error; in the catch the error leaves it for the
\* finally; in the finally it is logged and the job leaves the processing set
BodyStoreFault(b) ==
    /\ b.pc \in {"lockUser", "markProcessing", "markCompleted", "markFailed",
                 "unlock"}
    /\ IF b.pc = "unlock"
       THEN /\ processingJobs' =
                  [processingJobs EXCEPT ![b.w] = @ \ {b.job.jobId}]
            /\ bodies' = Take(bodies, b)
       ELSE /\ Step(b, IF b.pc = "markFailed" THEN [b EXCEPT !.pc = "unlock"]
                       ELSE Failing(b, StoreMessage))
            /\ UNCHANGED processingJobs
    /\ UNCHANGED <<now, jobs, nextId, locks, running, startTime,
                   pollingInterval, timers, stopWaits, polls, subs, reply, last>>

\* -------------------------------------------------------------- ingestion
JobData(ch, u, pr, cd) ==
    [channel |-> ch, userId |-> u, prompt |-> pr, channelData |-> cd,
     priority |-> "normal"]

Reply(ep, u, code) == [ep |-> ep, userId |-> u, code |-> code, jobId |-> 0]
Accepted(ep, u, id) == [ep |-> ep, userId |-> u, code |-> 200, jobId |-> id]

\* a request of an ingestion endpoint, suspended in userLock.isUserLocked
NewSub(ep, u, jd) == [ep |-> ep, userId |-> u, jd |-> jd, pc |-> "isUserLocked"]

\* await jobQueue.enqueueJob(jobData): the job is written under a fresh uuid
Enqueued(jd) ==
    /\ ~EnqueueRejects(jd)
    /\ nextId <= MaxJobs
    /\ jobs' = PutItem(jobs, NewItem(jd, nextId, now))
    /\ nextId' = nextId + 1

\* POST /mobile/question, the jobData it builds
MobileJobData(u, pr) == JobData("mobile", u, pr, EmptyChannelData)

\* POST /mobile/question, up to its first await: 400 without userId or prompt
MobileQuestion(u, pr) ==
    /\ IF u = Absent \/ pr = Absent
       THEN /\ reply' = Reply("mobile", u, 400)
            /\ UNCHANGED subs
       ELSE /\ BagCardinality(subs) < MaxSubs
            /\ subs' = Put(subs, NewSub("mobile", u, MobileJobData(u, pr)))
            /\ UNCHANGED reply
    /\ UNCHANGED <<now, jobs, nextId, locks, workerVars, polls, bodies, last>>

\* From.replace('whatsapp:', '') and `whatsapp:${senderNumber}`
SenderNumber(from) == IF from = "whatsapp:+1" THEN "+1" ELSE from
WhatsAppUserId(number) == IF number = "+1" THEN "whatsapp:+1" ELSE number
\* Body.trim()
Trim(body) == IF body = " " THEN Absent ELSE body

\* POST /whatsapp/webhook, the jobData it builds: the number is passed as a
\* top-level phoneNumber field, which enqueueJob does not read
WebhookJobData(u, pr, number) == JobData("whatsapp", u, pr, NoChannelData)

\* POST /whatsapp/webhook, up to its first await: 400 without Body or From
WhatsAppWebhook(body, from) ==
    /\ IF body = Absent \/ from = Absent
       THEN /\ reply' = Reply("webhook", Absent, 400)
            /\ UNCHANGED subs
       ELSE /\ BagCardinality(subs) < MaxSubs
            /\ subs' = Put(subs,
                  NewSub("webhook", WhatsAppUserId(SenderNumber(from)),
                         WebhookJobData(WhatsAppUserId(SenderNumber(from)),
                                        Trim(body), SenderNumber(from))))
            /\ UNCHANGED reply
    /\ UNCHANGED <<now, jobs, nextId, locks, workerVars, polls, bodies, last>>

\* endpoints that never find a user locked
SubmissionBlockedNever(u) == FALSE

\* the lock check of both ingestion endpoints
SubmissionBlocked(u) == IsUserLocked(locks, u, now)

\* both endpoints: isUserLocked returns (or throws: 500).  A locked user gets
\* 429 from /mobile/question; the webhook sends the busy message and answers
\* 200 without a jobId, or 500 when the message fails
IngestIsUserLocked(s) ==
    /\ s.pc = "isUserLocked"
    /\ \/ /\ subs' = Take(subs, s)
          /\ reply' = Reply(s.ep, s.userId, 500)
       \/ IF SubmissionBlocked(s.userId)
          THEN /\ subs' = Take(subs, s)
               /\ \E code \in IF s.ep = "mobile" THEN {429} ELSE {200, 500} :
                     reply' = Reply(s.ep, s.userId, code)
          ELSE /\ subs' = Swap(subs, s, [s EXCEPT !.pc = "enqueueJob"])
               /\ UNCHANGED reply
    /\ UNCHANGED <<now, jobs, nextId, locks, workerVars, polls, bodies, last>>

\* both endpoints: enqueueJob returns and the request is answered with 200
\* (the webhook sends its acknowledgement first: 500 when that fails), or
\* enqueueJob throws (validation, store) and the error middleware answers 500
IngestEnqueueJob(s) ==
    /\ s.pc = "enqueueJob"
    /\ subs' = Take(subs, s)
    /\ \/ /\ Enqueued(s.jd)
          /\ \/ reply' = Accepted(s.ep, s.userId, nextId)
             \/ /\ s.ep = "webhook"
                /\ reply' = Reply(s.ep, s.userId, 500)
       \/ /\ reply' = Reply(s.ep, s.userId, 500)
          /\ UNCHANGED <<jobs, nextId>>
    /\ UNCHANGED <<now, locks, workerVars, polls, bodies, last>>

\* a caller of jobQueue.enqueueJob other than the endpoints (the tests and
\* scripts of the repository call it directly)
SubmitJob(jd) ==
    /\ Enqueued(jd)
    /\ UNCHANGED <<now, locks, workerVars, polls, bodies, subs, reply, last>>

SubmittedJobData ==
    {JobData("mobile", "u1", "hi", NoChannelData),
     JobData("whatsapp", "whatsapp:+1", "hi", PhoneData("+1"))}

\* ------------------------------------------------- direct store callers
\* the job-test endpoints, the scripts and the tests call the job queue
\* directly; last records the call and what it returned
Call(op, id, threw, res) == [op |-> op, id |-> id, threw |-> threw, res |-> res]

\* job data as a caller may pass it: valid, a field missing, a channel that
\* is not recognized
EnqueueInputs ==
    SubmittedJobData \cup
    {JobData(Absent, "u1", "hi", NoChannelData),
     JobData("mobile", Absent, "hi", NoChannelData),
     JobData("mobile", "u1", Absent, NoChannelData),
     JobData("sms", "u1", "hi", NoChannelData)}

\* await jobQueue.enqueueJob(jd): throws on invalid job data, otherwise
\* writes the item and returns its id
CallEnqueueJob(jd) ==
    /\ IF EnqueueRejects(jd)
       THEN /\ last' = Call("enqueueJob", 0, TRUE, <<>>)
            /\ UNCHANGED <<jobs, nextId>>
       ELSE /\ Enqueued(jd)
            /\ last' = Call("enqueueJob", nextId, FALSE, <<>>)
    /\ UNCHANGED <<now, locks, workerVars, polls, bodies, subs, reply>>

UpdateResults == {NoResult, ResponseResult("r1"), ErrorResult(OtherMessage)}

\* await jobQueue.updateJobStatus(id, status, result)
CallUpdateJobStatus(id, status, result) ==
    /\ jobs' = UpdateItem(jobs, id, status, result, now)
    /\ last' = Call("updateJobStatus", id, FALSE, <<status, result>>)
    /\ UNCHANGED <<now, nextId, locks, workerVars, polls, bodies, subs, reply>>

\* await jobQueue.getPendingJobs(limit, channel): the items of the query, or
\* the query throws
CallGetPendingJobs(limit, channel) ==
    /\ \/ \E res \in GetPendingJobs(jobs, limit, channel, now) :
             last' = Call("getPendingJobs", limit, FALSE, res)
       \/ last' = Call("getPendingJobs", limit, TRUE, <<>>)
    /\ UNCHANGED <<now, jobs, nextId, locks, workerVars, polls, bodies, subs,
                   reply>>

Limits == 1..MaxJobs
Channels == ValidChannels \cup {NoChannel}

\* ------------------------------------------------------- worker status
\* a boolean as JSON shows it
JsBool(b) == IF b THEN "true" ELSE "false"

\* asyncWorker.js getStatus: the isRunning field is this.isRunning, the
\* method itself and not its result, whatever the flag is
IsRunningField(w) == "function"

Max(a, b) == IF a >= b THEN a ELSE b

\* asyncWorker.js getStatus
GetStatus(w) ==
    LET elapsed == IF startTime[w] = NoTime THEN 0 ELSE now - startTime[w]
    IN  [isRunning |-> IsRunningField(w),
         processingJobs |-> processingJobs[w],
         processingCount |-> Cardinality(processingJobs[w]),
         maxConcurrentJobs |-> MaxConcurrentJobs,
         elapsedTime |-> elapsed,
         timeRemaining |-> Max(0, MaxExecutionTime - elapsed),
         approachingTimeout |-> IsApproachingTimeout(w)]

\* GET /worker/status
CallGetStatus(w) ==
    /\ last' = Call("getStatus", 0, FALSE, <<GetStatus(w)>>)
    /\ UNCHANGED <<now, jobs, nextId, locks, workerVars, polls, bodies, subs,
                   reply>>

\* ------------------------------------------------------ polling a job
\* how a caller of GET /mobile/job/:jobId says who it is: not at all, in
\* the query string (?userId=) or in the x-user-id header
Callers ==
    {[query |-> Absent, header |-> Absent]}
    \cup {[query |-> u, header |-> Absent] : u \in UserIds}
    \cup {[query |-> Absent, header |-> u] : u \in UserIds}

\* GET /mobile/job/:jobId, the job of the response body
JobProjection(job) ==
    [jobId |-> job.jobId, status |-> job.status, prompt |-> job.prompt,
     createdAt |-> job.createdAt, updatedAt |-> job.updatedAt,
     result |-> job.result, channel |-> job.channel]

NoBody == JobProjection(NoJob)

\* GET /mobile/job/:jobId: the status code and the body; only req.query is
\* read for the caller's userId
JobStatusResponse(store, id, caller) ==
    IF GetJob(store, id) = NoJob THEN <<404, NoBody>>
    ELSE IF caller.query # Absent /\ GetJob(store, id).userId # caller.query
    THEN <<403, NoBody>>
    ELSE <<200, JobProjection(GetJob(store, id))>>

\* GET /mobile/job/:jobId: getJob returns, or throws and the error
\* middleware answers 500; last keeps the response and the caller
GetJobStatus(id, caller) ==
    /\ \/ last' = Call("getJobStatus", id, FALSE,
                       JobStatusResponse(jobs, id, caller) \o <<caller>>)
       \/ last' = Call("getJobStatus", id, TRUE, <<500, NoBody, caller>>)
    /\ UNCHANGED <<now, jobs, nextId, locks, workerVars, polls, bodies, subs,
                   reply>>

\* ------------------------------------- direct lock and router callers
\* the lease lengths a caller passes, in ticks
Ttls == 1..MaxTtl

\* the expiry stored for a user, if any
StoredExpiry(lk, u) == IF u \in DOMAIN lk THEN lk[u].ttl ELSE NoTime

\* await userLock.lockUser(u, ttl); last keeps the user and the expiry that
\* was stored when the call was made
CallLockUser(u, ttl) ==
    /\ locks' = LockUser(locks, u, ttl, now)
    /\ last' = Call("lockUser", ttl, FALSE, <<u, StoredExpiry(locks, u)>>)
    /\ UNCHANGED <<now, jobs, nextId, workerVars, polls, bodies, subs, reply>>

\* await userLock.isUserLocked(u)
CallIsUserLocked(u) ==
    /\ last' = Call("isUserLocked", 0, FALSE,
                    <<u, IsUserLocked(locks, u, now)>>)
    /\ UNCHANGED <<now, jobs, nextId, locks, workerVars, polls, bodies, subs,
                   reply>>

\* await userLock.unlockUser(u); last keeps the user and the expiry that
\* was stored when the call was made
CallUnlockUser(u) ==
    /\ locks' = UnlockUser(locks, u)
    /\ last' = Call("unlockUser", 0, FALSE, <<u, StoredExpiry(locks, u)>>)
    /\ UNCHANGED <<now, jobs, nextId, workerVars, polls, bodies, subs, reply>>

\* the jobs a router call is made for: a mobile job, a whatsapp job with a
\* phone number and the whatsapp job the webhook enqueues, without one
RoutedJobs ==
    {NewItem(jd, 1, 0) :
        jd \in SubmittedJobData \cup
               {WebhookJobData("whatsapp:+1", "hi", "+1")}}

\* await responseRouter.routeResponse(job, response, metadata)
CallRouteResponse(job, env) ==
    /\ last' = Call("routeResponse", 0, RouteResponse(job, env) = "throws",
                    <<job.channel, RouteResponse(job, env)>>)
    /\ UNCHANGED <<now, jobs, nextId, locks, workerVars, polls, bodies, subs,
                   reply>>

\* await responseRouter.routeErrorResponse(job, errorMessage)
CallRouteErrorResponse(job, msg, env) ==
    /\ last' = Call("routeErrorResponse", 0,
                    RouteErrorResponse(job, env) = "throws",
                    <<job.channel, RouteErrorResponse(job, env),
                      ErrorText(job, msg)>>)
    /\ UNCHANGED <<now, jobs, nextId, locks, workerVars, polls, bodies, subs,
                   reply>>

\* an item whose channel the router has no case for
UnroutableJob == NewItem(JobData("sms", "u1", "hi", NoChannelData), 1, 0)

\* asyncWorker.js processNextJob, its last step, for an item as the store
\* returned it: the job id enters the processing set and processJob(job) is
\* started with a catch that logs its rejection
ProcessJob(w, job) ==
    /\ job.jobId \notin processingJobs[w]
    /\ BagCardinality(bodies) < MaxBodies
    /\ processingJobs' = [processingJobs EXCEPT ![w] = @ \cup {job.jobId}]
    /\ bodies' = Put(bodies, NewBody(w, job))
    /\ UNCHANGED <<now, jobs, nextId, locks, running, startTime,
                   pollingInterval, timers, stopWaits, polls, subs, reply, last>>

\* the store reclaims an expired job record
Reclaim(id) ==
    /\ id \in DOMAIN jobs
    /\ jobs[id].ttl # NoTime
    /\ jobs[id].ttl <= now
    /\ jobs' = Reclaimed(jobs, id)
    /\ UNCHANGED <<now, nextId, locks, workerVars, polls, bodies, subs, reply,
                   last>>

\* ------------------------------------------------------------ the system
\* no processNextJob call and no processJob call is in flight
Idle == polls = EmptyBag /\ bodies = EmptyBag

\* the pipeline: jobs are enqueued, the started worker polls and processes
\* them; the store answers every call, and every call in flight returns
\* within the tick it was made in
Next ==
    \/ Idle /\ Tick
    \/ \E jd \in SubmittedJobData : SubmitJob(jd)
    \/ \E w \in Workers : Start(w)
    \/ \E w \in Workers : PollTick(w)
    \/ \E p \in BagToSet(polls) : PollGetPending(p)
    \/ \E p \in BagToSet(polls) : PollIsLocked(p)
    \/ \E b \in BagToSet(bodies) : BodyLockUser(b)
    \/ \E b \in BagToSet(bodies) : BodyMarkProcessing(b)
    \/ \E b \in BagToSet(bodies) : BodyCrucible(b)
    \/ \E b \in BagToSet(bodies) : BodyRouteResponse(b)
    \/ \E b \in BagToSet(bodies) : BodyMarkCompleted(b)
    \/ \E b \in BagToSet(bodies) : BodyMarkFailed(b)
    \/ \E b \in BagToSet(bodies) : BodyRouteError(b)
    \/ \E b \in BagToSet(bodies) : BodyUnlock(b)

Spec == Init /\ [][Next]_vars

\* the ids enqueueJob has returned
IssuedIds == 1..(nextId - 1)

\* the job queue under its direct callers
NextStore ==
    \/ Tick
    \/ \E jd \in EnqueueInputs : CallEnqueueJob(jd)
    \/ \E id \in IssuedIds, st \in Statuses, r \in UpdateResults :
          CallUpdateJobStatus(id, st, r)
    \/ \E limit \in Limits, ch \in Channels : CallGetPendingJobs(limit, ch)

SpecStore == Init /\ [][NextStore]_vars

\* jobs are enqueued, their status is written and they are polled by id
NextRead ==
    \/ Tick
    \/ \E jd \in SubmittedJobData : CallEnqueueJob(jd)
    \/ \E id \in IssuedIds, st \in Statuses, r \in UpdateResults :
          CallUpdateJobStatus(id, st, r)
    \/ \E id \in 1..MaxJobs, caller \in Callers : GetJobStatus(id, caller)

SpecRead == Init /\ [][NextRead]_vars

\* the lock table, the response router and the worker's controls under
\* their direct callers
NextCalls ==
    \/ Tick
    \/ \E w \in Workers : Start(w)
    \/ \E w \in Workers : Stop(w)
    \/ \E w \in Workers : ForceStop(w)
    \/ \E w \in Workers : CallGetStatus(w)
    \/ \E u \in UserIds, ttl \in Ttls : CallLockUser(u, ttl)
    \/ \E u \in UserIds : CallIsUserLocked(u)
    \/ \E u \in UserIds : CallUnlockUser(u)
    \/ \E job \in RoutedJobs, env \in Envs : CallRouteResponse(job, env)
    \/ \E job \in RoutedJobs, msg \in {TimeoutMessage, OtherMessage},
          env \in Envs : CallRouteErrorResponse(job, msg, env)

SpecCalls == Init /\ [][NextCalls]_vars

\* the HTTP surface: the ingestion endpoints and POST /worker/process, called
\* while no earlier processNextJob call or job is in flight; the clock ticks
\* at any moment, so locks expire and answers time out
NextIngest ==
    \/ Tick
    \/ \E u \in UserIds \cup {Absent}, pr \in {"hi", Absent} : MobileQuestion(u, pr)
    \/ \E body \in {"hi", " ", Absent}, from \in {"whatsapp:+1", Absent} :
          WhatsAppWebhook(body, from)
    \/ \E s \in BagToSet(subs) : IngestIsUserLocked(s)
    \/ \E s \in BagToSet(subs) : IngestEnqueueJob(s)
    \/ \E w \in Workers : Idle /\ WorkerProcess(w)
    \/ \E p \in BagToSet(polls) : PollGetPending(p)
    \/ \E p \in BagToSet(polls) : PollIsLocked(p)
    \/ \E b \in BagToSet(bodies) : BodyLockUser(b)
    \/ \E b \in BagToSet(bodies) : BodyMarkProcessing(b)
    \/ \E b \in BagToSet(bodies) : BodyCrucible(b)
    \/ \E b \in BagToSet(bodies) : BodyRouteResponse(b)
    \/ \E b \in BagToSet(bodies) : BodyMarkCompleted(b)
    \/ \E b \in BagToSet(bodies) : BodyMarkFailed(b)
    \/ \E b \in BagToSet(bodies) : BodyRouteError(b)
    \/ \E b \in BagToSet(bodies) : BodyUnlock(b)

SpecIngest == Init /\ [][NextIngest]_vars

\* the steps of the processNextJob and processJob calls in flight
PollStep ==
    \/ \E p \in BagToSet(polls) : PollGetPending(p)
    \/ \E p \in BagToSet(polls) : PollIsLocked(p)

BodyStep ==
    \/ \E b \in BagToSet(bodies) : BodyLockUser(b)
    \/ \E b \in BagToSet(bodies) : BodyMarkProcessing(b)
    \/ \E b \in BagToSet(bodies) : BodyCrucible(b)
    \/ \E b \in BagToSet(bodies) : BodyRouteResponse(b)
    \/ \E b \in BagToSet(bodies) : BodyMarkCompleted(b)
    \/ \E b \in BagToSet(bodies) : BodyMarkFailed(b)
    \/ \E b \in BagToSet(bodies) : BodyRouteError(b)
    \/ \E b \in BagToSet(bodies) : BodyUnlock(b)

\* a poll tick that finds the calls of the earlier ticks over: the poll
\* interval is longer than a job takes; a tick that drains comes at any time
PollTickInTurn(w) == (Idle \/ IsApproachingTimeout(w)) /\ PollTick(w)

\* the worker's life cycle: start, stop and forceStop are called at any
\* moment and the clock ticks at any moment; every store call is answered
NextWorker ==
    \/ Tick
    \/ \E jd \in SubmittedJobData : SubmitJob(jd)
    \/ \E w \in Workers : Start(w)
    \/ \E w \in Workers : Stop(w)
    \/ \E w \in Workers : ForceStop(w)
    \/ \E s \in BagToSet(stopWaits) : StopCheck(s)
    \/ \E s \in BagToSet(stopWaits) : StopTimeout(s)
    \/ \E w \in Workers : PollTickInTurn(w)
    \/ PollStep
    \/ BodyStep

\* time passes, timers fire, and every awaited call returns
Fairness ==
    /\ WF_vars(Tick)
    /\ WF_vars(PollStep)
    /\ WF_vars(BodyStep)
    /\ WF_vars(\E s \in BagToSet(stopWaits) : StopCheck(s))
    /\ WF_vars(\E s \in BagToSet(stopWaits) : StopTimeout(s))

SpecWorker == Init /\ [][NextWorker]_vars /\ Fairness

\* the started worker with store and lock calls that may throw; it is
\* stopped only by the drain check of its poll tick, and the timeout of that
\* stop lies beyond the clock of the model
NextFaulty ==
    \/ Tick
    \/ \E jd \in SubmittedJobData : SubmitJob(jd)
    \/ \E w \in Workers : Start(w)
    \/ \E s \in BagToSet(stopWaits) : StopCheck(s)
    \/ \E w \in Workers : PollTickInTurn(w)
    \/ PollStep
    \/ BodyStep
    \/ \E b \in BagToSet(bodies) : BodyStoreFault(b)

SpecFaulty == Init /\ [][NextFaulty]_vars /\ Fairness

\* the started worker over a store that reclaims expired job records
NextReclaim ==
    \/ Tick
    \/ \E jd \in SubmittedJobData : SubmitJob(jd)
    \/ \E w \in Workers : Start(w)
    \/ \E w \in Workers : PollTickInTurn(w)
    \/ PollStep
    \/ BodyStep
    \/ \E id \in 1..MaxJobs : Reclaim(id)

SpecReclaim == Init /\ [][NextReclaim]_vars

\* the started worker and the jobs of one user, with poll ticks that
\* overlap and a clock that ticks while calls are in flight
NextLease ==
    \/ Tick
    \/ SubmitJob(JobData("mobile", "u1", "hi", NoChannelData))
    \/ \E w \in Workers : Start(w)
    \/ \E w \in Workers : PollTick(w)
    \/ PollStep
    \/ BodyStep

SpecLease == Init /\ [][NextLease]_vars

\* the steps of the processNextJob calls in flight when the store and the
\* lock table answer every call: a call that can go on does
PollAnswered ==
    \/ \E p \in BagToSet(polls) :
          /\ PollGetPending(p)
          /\ (\E res \in GetPendingJobs(jobs, 1, NoChannel, now) :
                 Len(res) > 0 /\ res[1].jobId \notin processingJobs[p.w])
             => polls' # Take(polls, p)
    \/ \E p \in BagToSet(polls) :
          /\ PollIsLocked(p)
          /\ ClaimGuard(p) => bodies' # bodies

\* the started worker, never stopped, over a store that answers every call,
\* while a user is locked from outside the worker (POST /lock-test/lock, or
\* a job of the user in another worker process)
NextQueue ==
    \/ Tick
    \/ \E jd \in SubmittedJobData : SubmitJob(jd)
    \/ CallLockUser("u1", MaxTtl)
    \/ \E w \in Workers : Start(w)
    \/ \E w \in Workers : PollTickInTurn(w)
    \/ PollAnswered
    \/ BodyStep

\* time passes, the poll timer fires again and again, and every awaited
\* call returns
QueueFairness ==
    /\ WF_vars(Tick)
    /\ WF_vars(\E w \in Workers : PollTickInTurn(w))
    /\ WF_vars(PollAnswered)
    /\ WF_vars(BodyStep)

SpecQueue == Init /\ [][NextQueue]_vars /\ QueueFairness

\* the job body given items of every channel, and the router and the job
\* body given an item of a channel the router has no case for
NextRoute ==
    \/ Tick
    \/ \E w \in Workers : Start(w)
    \/ \E env \in Envs : CallRouteResponse(UnroutableJob, env)
    \/ \E msg \in {TimeoutMessage, OtherMessage}, env \in Envs :
          CallRouteErrorResponse(UnroutableJob, msg, env)
    \/ \E w \in Workers, job \in RoutedJobs \cup {UnroutableJob} :
          ProcessJob(w, job)
    \/ BodyStep

SpecRoute == Init /\ [][NextRoute]_vars

\* ------------------------------------------------------------ the claims
\* C1: once the stored status of a job is completed or failed, no step makes
\* it pending or processing again.
C1_TerminalStatusNeverRegresses ==
    [][\A id \in DOMAIN jobs :
          jobs[id].status \in {"completed", "failed"}
          => GetJob(jobs', id).status \notin {"pending", "processing"}]_vars

\* C2: in every state of the job store a pending or processing job has no
\* result and a completed or failed job has one.
C2_ResultIffTerminal ==
    \A id \in DOMAIN jobs :
        /\ jobs[id].status \in {"pending", "processing"}
              => jobs[id].result = NoResult
        /\ jobs[id].status \in {"completed", "failed"}
              => jobs[id].result # NoResult

\* C3: the processing set of a worker never holds more than
\* maxConcurrentJobs job ids.
C3_ProcessingSetBounded ==
    \A w \in Workers : Cardinality(processingJobs[w]) <= MaxConcurrentJobs

C6_SecondSubmissionRejected ==
    [][\A s \in BagToSet(subs) :
          (/\ subs' = Take(subs, s)
           /\ \E id \in DOMAIN jobs :
                 /\ jobs[id].userId = s.userId
                 /\ jobs[id].status \in {"pending", "processing"})
          => /\ jobs' = jobs
             /\ reply'.code \in {429, 500}]_vars

\* C7: every enqueueJob call with channel, userId and prompt present and a
\* recognized channel returns an id that no stored job has, and getJob of
\* that id then returns a job with status pending, the given channel, userId
\* and prompt, and no result.
C7_EnqueuedJobVisible ==
    [][\A jd \in EnqueueInputs :
          (/\ CallEnqueueJob(jd)
           /\ jd.channel \in {"mobile", "whatsapp"}
           /\ jd.userId # Absent
           /\ jd.prompt # Absent)
          => /\ ~last'.threw
             /\ last'.id \notin DOMAIN jobs
             /\ LET job == GetJob(jobs', last'.id)
                IN  /\ job # NoJob
                    /\ job.jobId = last'.id
                    /\ job.status = "pending"
                    /\ job.channel = jd.channel
                    /\ job.userId = jd.userId
                    /\ job.prompt = jd.prompt
                    /\ job.result = NoResult]_vars

\* an enqueueJob call has returned the id of a second job
C7_Witness ==
    /\ last.op = "enqueueJob"
    /\ ~last.threw
    /\ last.id = 2
    /\ GetJob(jobs, last.id).status = "pending"

\* C8: enqueueJob with channel, userId or prompt missing, or with a channel
\* other than mobile and whatsapp, throws and leaves the job store as it was.
C8_InvalidEnqueueWritesNothing ==
    [][\A jd \in EnqueueInputs :
          (/\ CallEnqueueJob(jd)
           /\ \/ jd.channel = Absent
              \/ jd.userId = Absent
              \/ jd.prompt = Absent
              \/ jd.channel \notin {"mobile", "whatsapp"})
          => /\ last'.threw
             /\ jobs' = jobs
             /\ nextId' = nextId]_vars

\* an enqueueJob call has thrown while the store holds a job
C8_Witness ==
    /\ last.op = "enqueueJob"
    /\ last.threw
    /\ DOMAIN jobs # {}

\* C9: getPendingJobs(limit, channel) returns at most limit stored jobs, each
\* with status pending and createdAt not later than the query time, in
\* ascending createdAt order, and of the given channel when one is passed.
C9_PendingQuerySound ==
    [][\A limit \in Limits, ch \in Channels :
          CallGetPendingJobs(limit, ch)
          => LET res == last'.res
             IN  /\ Len(res) <= limit
                 /\ \A i \in 1..Len(res) :
                       /\ GetJob(jobs, res[i].jobId) = res[i]
                       /\ res[i].status = "pending"
                       /\ res[i].createdAt <= now
                       /\ ch \in {"mobile", "whatsapp"} => res[i].channel = ch
                 /\ \A i, j \in 1..Len(res) :
                       i < j => /\ res[i].createdAt <= res[j].createdAt
                                /\ res[i].jobId # res[j].jobId]_vars

\* a query has returned a job while the store holds one that is not pending
C9_Witness ==
    /\ last.op = "getPendingJobs"
    /\ Len(last.res) = 1
    /\ \E id \in DOMAIN jobs : jobs[id].status \in {"processing", "completed"}

\* C10: a job whose body has received the answer r of the answer service
\* within maxJobProcessingTime is completed with result.response = r when the
\* body reaches its finally block.
C10_AnsweredJobCompleted ==
    \A b \in BagToSet(bodies) :
        (b.response # Absent /\ b.pc = "unlock")
        => /\ GetJob(jobs, b.job.jobId).status = "completed"
           /\ GetJob(jobs, b.job.jobId).result = ResponseResult(b.response)

\* C11: a job whose body is waiting for the answer service when
\* maxJobProcessingTime has passed since the call eventually has status
\* failed and result.error "AI processing timeout".
C11_TimeoutFailsJob ==
    \A id \in 1..MaxJobs :
        (\E b \in BagToSet(bodies) :
            /\ b.job.jobId = id
            /\ b.pc = "crucible"
            /\ now - b.t0 >= MaxJobProcessingTime)
        ~> (/\ id \in DOMAIN jobs
            /\ jobs[id].status = "failed"
            /\ jobs[id].result = [kind |-> "error",
                                  value |-> "AI processing timeout"])

\* a job has failed with the timeout error while its body is on its way to
\* the finally block
C11_Witness ==
    \E b \in BagToSet(bodies) :
        /\ b.pc = "routeError"
        /\ b.error = "AI processing timeout"
        /\ b.response = Absent
        /\ jobs[b.job.jobId].status = "failed"
        /\ jobs[b.job.jobId].result.value = "AI processing timeout"

\* C12: a job whose answer arrived and whose delivery then failed still ends
\* completed with the response stored: when its body reaches the finally
\* block, get returns status completed and result.response.
C12_DeliveryFailureKeepsOutcome ==
    \A b \in BagToSet(bodies) :
        (/\ b.response # Absent
         /\ b.error = DeliveryMessage
         /\ b.pc = "unlock")
        => /\ GetJob(jobs, b.job.jobId).status = "completed"
           /\ GetJob(jobs, b.job.jobId).result.kind = "response"

\* C13: a routeErrorResponse call for a job of a recognized channel returns
\* normally, whatever the text transport, the push transport and the user
\* lookups do.
C13_RouteErrorNeverThrows ==
    [][\A job \in RoutedJobs, msg \in {TimeoutMessage, OtherMessage},
         env \in Envs :
          (/\ CallRouteErrorResponse(job, msg, env)
           /\ job.channel \in {"mobile", "whatsapp"})
          => ~last'.threw]_vars

\* C14: a processJob call ends only in its finally block, having called
\* unlockUser for its job's user, and its job id is then not in the
\* processing set, whether or not the unlock succeeded; and every
\* processJob call in flight ends, after which its job id is not in the
\* processing set.
C14_BodyReachesFinally ==
    /\ [][\A b \in BagToSet(bodies) :
            bodies' = bodies (-) SetToBag({b})
            => /\ b.pc = "unlock"
               /\ b.job.jobId \notin processingJobs'[b.w]
               /\ \/ b.job.userId \notin DOMAIN locks'
                  \/ locks' = locks]_vars
    /\ \A id \in 1..MaxJobs :
          (\E b \in BagToSet(bodies) : b.job.jobId = id)
          ~> (/\ \A b \in BagToSet(bodies) : b.job.jobId # id
              /\ \A w \in Workers : id \notin processingJobs[w])

\* a job body is over whose store calls failed: the job it had claimed was
\* never marked, its user's lock is still stored, and the processing set is
\* empty
C14_Witness ==
    /\ bodies = EmptyBag
    /\ \A w \in Workers : processingJobs[w] = {} /\ running[w]
    /\ stopWaits = EmptyBag
    /\ \E id \in DOMAIN jobs :
          /\ jobs[id].status = "pending"
          /\ jobs[id].userId \in DOMAIN locks

\* C15: no step of a processNextJob or processJob call, failing or not,
\* changes whether the worker is running or cancels its poll timer.
C15_JobFailureKeepsWorkerRunning ==
    [][(bodies' # bodies \/ polls' # polls)
       => /\ running' = running
          /\ timers' = timers
          /\ pollingInterval' = pollingInterval
          /\ startTime' = startTime]_vars

\* after a job whose store calls failed and a job whose answer failed, the
\* worker is running with its poll timer alive and a new poll under way
C15_Witness ==
    /\ \A w \in Workers : running[w] /\ timers[w] > 0 /\ pollingInterval[w]
    /\ polls # EmptyBag
    /\ \E id \in DOMAIN jobs :
          jobs[id].status = "failed" /\ jobs[id].result.kind = "error"
    /\ \E id \in DOMAIN jobs :
          jobs[id].status = "processing" /\ jobs[id].userId \in DOMAIN locks
    /\ bodies = EmptyBag

\* C16: forceStop sets running to false, cancels the poll timer and empties
\* the processing set in one step; and a job that is processing while its
\* body is abandoned (the worker stopped, the job id no longer in the
\* processing set) keeps the stored status processing.
C16_ForceStoppedJobStaysProcessing ==
    [][/\ \A w \in Workers :
             ForceStop(w)
             => /\ ~running'[w]
                /\ timers'[w] = 0
                /\ processingJobs'[w] = {}
                /\ jobs' = jobs
       /\ \A b \in BagToSet(bodies) :
             (/\ ~running[b.w]
              /\ b.job.jobId \notin processingJobs[b.w]
              /\ jobs[b.job.jobId].status = "processing")
             => jobs'[b.job.jobId].status = "processing"]_vars

\* C17: stop sets running to false and cancels the poll timer; it returns at
\* once when the processing set is empty, otherwise when a check finds it
\* empty or when the timeout fires; whenever it returns, the worker is not
\* running and the processing set is empty.
C17_StopReturnsStopped ==
    [][/\ \A w \in Workers :
             Stop(w)
             => /\ ~running'[w]
                /\ timers'[w] = 0
                /\ ~pollingInterval'[w]
                /\ stopWaits' = stopWaits => processingJobs'[w] = {}
       /\ \A s \in BagToSet(stopWaits) :
             (/\ s.checking
              /\ \/ stopWaits' = stopWaits (-) SetToBag({s})
                 \/ stopWaits' = (stopWaits (-) SetToBag({s}))
                                   (+) SetToBag({[s EXCEPT !.checking = FALSE]}))
             => /\ processingJobs'[s.w] = {}
                /\ ~running'[s.w]]_vars

\* C18: a poll tick of a running worker whose elapsed time is within the
\* drain margin of maxExecutionTime stops the worker and claims nothing; and
\* while the worker stays stopped after it, no job id is added to its
\* processing set.
C18_DrainAcceptsNoWork ==
    [][\A w \in Workers :
          /\ (/\ PollTick(w)
              /\ running[w]
              /\ MaxExecutionTime - (now - startTime[w]) < DrainMargin)
             => /\ ~running'[w]
                /\ timers'[w] = 0
                /\ processingJobs'[w] = processingJobs[w]
                /\ polls' = polls
          /\ (/\ ~running[w]
              /\ ~running'[w]
              /\ startTime[w] # NoTime
              /\ MaxExecutionTime - (now - startTime[w]) < DrainMargin)
             => processingJobs'[w] \subseteq processingJobs[w]]_vars

\* C19: isUserLocked(u) returns true exactly when a lease of u is stored and
\* its expiry is later than the time of the call.
C19_LockedIffUnexpiredLease ==
    [][\A u \in UserIds :
          CallIsUserLocked(u)
          => last'.res[2] = (u \in DOMAIN locks /\ locks[u].ttl > now)]_vars

\* isUserLocked has returned false for a user whose expired lease is stored
C19_Witness ==
    /\ last.op = "isUserLocked"
    /\ last.res[2] = FALSE
    /\ last.res[1] \in DOMAIN locks
    /\ locks[last.res[1]].ttl <= now

\* C20: lockUser(u, ttl) returns normally whatever lease of u is stored, and
\* the stored lease of u then has status locked and expires at now + ttl.
C20_LockOverwritesLease ==
    [][\A u \in UserIds, ttl \in Ttls :
          CallLockUser(u, ttl)
          => /\ ~last'.threw
             /\ u \in DOMAIN locks'
             /\ locks'[u].status = "locked"
             /\ locks'[u].ttl = now + ttl
             /\ \A v \in DOMAIN locks \ {u} :
                   v \in DOMAIN locks' /\ locks'[v] = locks[v]]_vars

\* lockUser has replaced an unexpired lease by one that expires earlier
C20_Witness ==
    /\ last.op = "lockUser"
    /\ last.res[2] > now
    /\ locks[last.res[1]].ttl < last.res[2]

\* C21: unlockUser(u) returns normally whether or not a lease of u is
\* stored; afterwards no lease of u is stored, isUserLocked(u) is false,
\* the leases of the other users are as they were, and a second call
\* changes nothing.
C21_UnlockIdempotent ==
    [][\A u \in UserIds :
          CallUnlockUser(u)
          => /\ ~last'.threw
             /\ u \notin DOMAIN locks'
             /\ DOMAIN locks' = DOMAIN locks \ {u}
             /\ \A v \in DOMAIN locks' : locks'[v] = locks[v]
             /\ u \notin DOMAIN locks => locks' = locks]_vars

\* unlockUser has been called for a user without a lease while the
\* unexpired lease of another user is stored
C21_Witness ==
    /\ last.op = "unlockUser"
    /\ last.res[2] = NoTime
    /\ \E v \in DOMAIN locks : v # last.res[1] /\ locks[v].ttl > now

\* C22: a poll of a job id that no job has is answered 404; a poll by a
\* caller who names a user other than the job's owner is answered 403
\* without the job; every other poll is answered 200 with the job (500
\* without it when the store fails).
C22_PollChecksOwner ==
    [][\A id \in 1..MaxJobs, caller \in Callers :
          GetJobStatus(id, caller)
          => LET code == last'.res[1]
                 body == last'.res[2]
                 named == {caller.query, caller.header} \ {Absent}
             IN  IF code = 500 THEN body.prompt = Absent
                 ELSE IF id \notin DOMAIN jobs THEN code = 404
                 ELSE IF \E u \in named : u # jobs[id].userId
                 THEN /\ code = 403
                      /\ body.prompt = Absent
                      /\ body.result = NoResult
                 ELSE /\ code = 200
                      /\ body.jobId = id
                      /\ body.prompt = jobs[id].prompt
                      /\ body.status = jobs[id].status
                      /\ body.result = jobs[id].result]_vars

\* C23: the status report equals the worker's state at the call: its
\* running field is the running flag, its job ids and count are the
\* processing set and its size, and the time remaining is
\* max(0, maxExecutionTime - elapsed).
C23_StatusReflectsWorker ==
    [][\A w \in Workers :
          CallGetStatus(w)
          => LET status == last'.res[1]
                 elapsed == IF startTime[w] = NoTime THEN 0
                            ELSE now - startTime[w]
             IN  /\ status.isRunning = (IF running[w] THEN "true" ELSE "false")
                 /\ status.processingJobs = processingJobs[w]
                 /\ status.processingCount = Cardinality(processingJobs[w])
                 /\ status.timeRemaining =
                       (IF MaxExecutionTime - elapsed > 0
                        THEN MaxExecutionTime - elapsed ELSE 0)]_vars

\* C24: routeResponse and routeErrorResponse called with a job whose channel
\* is neither mobile nor whatsapp throw and send nothing; inside a job body
\* that error ends in the body: the job is marked failed, no step of the
\* body sends anything or changes the worker's running flag or its timers.
C24_UnsupportedChannelFailsCallOnly ==
    [][/\ /\ last' # last
          /\ last'.op \in {"routeResponse", "routeErrorResponse"}
          /\ last'.res[1] \notin {"mobile", "whatsapp"}
          => last'.threw /\ last'.res[2] = "throws"
       /\ \A b \in BagToSet(bodies) :
            /\ b.job.channel \notin {"mobile", "whatsapp"}
            /\ bodies' # bodies
            /\ CopiesIn(b, bodies') < CopiesIn(b, bodies)
            => /\ running' = running
               /\ timers' = timers
               /\ \A c \in BagToSet(bodies') :
                     c.job = b.job => c.delivered = "none"
               /\ b.pc = "routeResponse"
                     => \E c \in BagToSet(bodies') :
                           c.job = b.job /\ c.pc = "markFailed"
               /\ b.pc = "routeError"
                     => \E c \in BagToSet(bodies') :
                           c.job = b.job /\ c.pc = "unlock"]_vars

\* a started worker whose job of an unsupported channel has been marked
\* failed after its routing call threw, and is about to unlock its user
C24_Witness ==
    \E b \in BagToSet(bodies) :
        /\ b.job.channel = "sms"
        /\ b.pc = "unlock"
        /\ b.error = DeliveryMessage
        /\ b.delivered = "none"
        /\ running[b.w]
        /\ b.job.jobId \in DOMAIN jobs
        /\ jobs[b.job.jobId].status = "failed"

\* C25: on the success path the status completed is stored before the
\* response is delivered: a job body that has sent its response finds its
\* job completed in the store.
C25_CompletedBeforeDelivery ==
    \A b \in BagToSet(bodies) :
        b.delivered = "response"
        => GetJob(jobs, b.job.jobId).status = "completed"

\* C26: while a job id is in the processing set of a worker, no step starts
\* another job body of that worker for the same id.
C26_NoSecondBodyWhileClaimed ==
    [][\A w \in Workers : \A id \in processingJobs[w] :
          LET Started(bag) ==
                BagCardinality([b \in {c \in BagToSet(bag) :
                                          c.w = w /\ c.job.jobId = id}
                                |-> CopiesIn(b, bag)])
          IN  Started(bodies') <= Started(bodies)]_vars

\* C27: a worker claims jobs in non-decreasing createdAt order: when a step
\* starts the body of a job, no job that was claimed before (one that has a
\* body in flight or whose stored status is no longer pending) was created
\* later than it.
C27_ClaimsInCreationOrder ==
    [][\A c \in BagToSet(bodies') :
          /\ c.pc = "lockUser"
          /\ CopiesIn(c, bodies') > CopiesIn(c, bodies)
          => \A id \in DOMAIN jobs :
                \/ jobs[id].status # "pending"
                \/ \E b \in BagToSet(bodies) : b.job.jobId = id
                => jobs[id].createdAt <= c.job.createdAt]_vars

\* C28: there is no requeue: no step starts the body of a job whose stored
\* status is processing, completed or failed, and no step writes the status
\* pending over one of these.
C28_NoRequeue ==
    [][/\ \A c \in BagToSet(bodies') :
            /\ c.pc = "lockUser"
            /\ CopiesIn(c, bodies') > CopiesIn(c, bodies)
            => GetJob(jobs, c.job.jobId).status = "pending"
       /\ \A id \in DOMAIN jobs :
            jobs[id].status \in {"processing", "completed", "failed"}
            => GetJob(jobs', id).status # "pending"]_vars

\* C29: the message sent for a failed job tells a timeout from another
\* failure on both channels: it is the "took too long" variant exactly when
\* the error message is the literal of the processing timeout, and the
\* generic retry message otherwise.
C29_ErrorMessageTellsTimeout ==
    [][\A job \in RoutedJobs, msg \in {TimeoutMessage, OtherMessage},
         env \in Envs :
          (/\ CallRouteErrorResponse(job, msg, env)
           /\ last'.res[2] = "sent")
          => last'.res[3] = (IF msg = "AI processing timeout" THEN "tooLong"
                             ELSE "generic")]_vars

\* C30: every job the webhook has enqueued carries the sender's number in
\* channelData, so that routing its answer finds the destination.
C30_WebhookJobHasDestination ==
    \A id \in DOMAIN jobs :
        jobs[id].channel = "whatsapp"
        => jobs[id].channelData.phoneNumber # Absent

\* C31: updateJobStatus on a stored job changes only its status, updatedAt
\* and, when a result is passed, its result: the other attributes are
\* unchanged, a stored result is kept when no result is passed, and every
\* other record is unchanged.
C31_UpdateFrame ==
    [][\A id \in DOMAIN jobs, st \in Statuses, r \in UpdateResults :
          CallUpdateJobStatus(id, st, r)
          => /\ jobs'[id].status = st
             /\ jobs'[id].updatedAt = now
             /\ jobs'[id].result = (IF r.kind = "none" THEN jobs[id].result
                                    ELSE r)
             /\ \A f \in {"jobId", "createdAt", "ttl", "userId", "channel",
                           "prompt", "channelData", "priority"} :
                   jobs'[id][f] = jobs[id][f]
             /\ DOMAIN jobs' = DOMAIN jobs
             /\ \A other \in DOMAIN jobs \ {id} :
                   jobs'[other] = jobs[other]]_vars

\* a status written without a result over a job that has a result, while
\* another job is stored
C31_Witness ==
    /\ last.op = "updateJobStatus"
    /\ last.id \in DOMAIN jobs
    /\ last.res[2].kind = "none"
    /\ jobs[last.id].result.kind = "response"
    /\ jobs[last.id].status = last.res[1]
    /\ \E other \in DOMAIN jobs : other # last.id

\* C32: updateJobStatus creates no record: every record of the job store
\* has the attributes enqueueJob writes, also after a job body has written
\* a status for a record the store had reclaimed.
C32_EveryRecordEnqueued ==
    \A id \in DOMAIN jobs :
        /\ jobs[id].jobId = id
        /\ jobs[id].channel # Absent
        /\ jobs[id].userId # Absent
        /\ jobs[id].prompt # Absent
        /\ jobs[id].createdAt # NoTime

\* C33: once completed or failed has been written for a job, no step
\* changes its stored status or its stored result.
C33_TerminalOutcomeFinal ==
    [][\A id \in DOMAIN jobs :
          jobs[id].status \in {"completed", "failed"}
          => /\ GetJob(jobs', id).status = jobs[id].status
             /\ GetJob(jobs', id).result = jobs[id].result]_vars

\* C34: while a job body is past its lockUser call and not yet through its
\* unlock, an unexpired lease of its user is stored.
C34_LeaseCoversBody ==
    \A b \in BagToSet(bodies) :
        b.pc # "lockUser"
        => /\ b.job.userId \in DOMAIN locks
           /\ locks[b.job.userId].status = "locked"
           /\ locks[b.job.userId].ttl > now

\* C35: the unlock of a job body deletes only the lease that body wrote:
\* when the stored lease of its user is one that another body, still in
\* flight, wrote later, the lease is still stored after the unlock.
C35_UnlockKeepsLaterLease ==
    [][\A b \in BagToSet(bodies) :
          /\ b.pc = "unlock"
          /\ CopiesIn(b, bodies') < CopiesIn(b, bodies)
          /\ b.job.userId \in DOMAIN locks
          /\ locks[b.job.userId].ttl > b.lease
          /\ \E c \in BagToSet(bodies') :
                /\ c.job.userId = b.job.userId
                /\ c.pc # "lockUser"
                /\ c.lease = locks[b.job.userId].ttl
          => /\ b.job.userId \in DOMAIN locks'
             /\ locks'[b.job.userId] = locks[b.job.userId]]_vars

\* C36: a job is claimed only while the worker is running: no step adds a
\* job id to the processing set of a worker, or starts a job body of it,
\* while its running flag is false.
C36_ClaimsOnlyWhileRunning ==
    [][\A w \in Workers :
          \/ ~(processingJobs'[w] \subseteq processingJobs[w])
          \/ \E c \in BagToSet(bodies') :
                c.w = w /\ CopiesIn(c, bodies') > CopiesIn(c, bodies)
          => running[w]]_vars

\* C37: a worker never has more than maxConcurrentJobs job bodies in
\* flight, and the id of every job body in flight is in its processing set.
C37_BodiesBoundedAndTracked ==
    \A w \in Workers :
        /\ BagCardinality([b \in {c \in BagToSet(bodies) : c.w = w}
                           |-> CopiesIn(b, bodies)]) <= MaxConcurrentJobs
        /\ \A b \in BagToSet(bodies) :
              b.w = w => b.job.jobId \in processingJobs[w]

\* C38: a due pending job whose user is not locked, while a worker is
\* running, not draining and has spare capacity, is eventually claimed
\* (unless one of these conditions ceases to hold), whatever older pending
\* jobs are stored.
C38_UnlockedJobEventuallyClaimed ==
    \A id \in 1..MaxJobs :
        LET Claimable ==
              /\ id \in DOMAIN jobs
              /\ jobs[id].status = "pending"
              /\ jobs[id].createdAt <= now
              /\ ~(/\ jobs[id].userId \in DOMAIN locks
                   /\ locks[jobs[id].userId].ttl > now)
              /\ \E w \in Workers :
                    /\ running[w]
                    /\ timers[w] > 0
                    /\ MaxExecutionTime - (now - startTime[w]) >= DrainMargin
                    /\ Cardinality(processingJobs[w]) < MaxConcurrentJobs
        IN  Claimable
            ~> (\/ ~Claimable
                \/ \E w \in Workers : id \in processingJobs[w])

\* C39: a stop() call that has returned because a check found the
\* processing set empty has no later effect: no step of it changes the
\* processing set.
C39_ReturnedStopIsOver ==
    [][\A s \in BagToSet(stopWaits) :
          /\ ~s.checking
          /\ CopiesIn(s, stopWaits') < CopiesIn(s, stopWaits)
          => processingJobs' = processingJobs]_vars

\* C40: a worker has one poll timer while it is running and none while it
\* is not, and start() on a running worker changes neither the timers nor
\* the start time.
C40_OneTimerIffRunning ==
    /\ [](\A w \in Workers : timers[w] = (IF running[w] THEN 1 ELSE 0))
    /\ [][\A w \in Workers :
            running[w] /\ Start(w)
            => /\ timers' = timers
               /\ startTime' = startTime
               /\ running' = running]_vars

\* a worker that was started again while an earlier stop() still waits for
\* its jobs
C40_Witness ==
    \E s \in BagToSet(stopWaits) :
        /\ running[s.w]
        /\ timers[s.w] = 1
        /\ startTime[s.w] = now
        /\ now > 0

====
